---------------------------- MODULE Spec2Model ----------------------------
(***************************************************************************)
(* Todo Manager Pro: the Express/Mongoose task API (src/backend) and the   *)
(* browser client's cache, undo slot and timers (src/frontend/app.js).     *)
(*                                                                         *)
(* Spec     one browser client talking to the API over an asynchronous     *)
(*          network: requests overlap, responses arrive in any order, a    *)
(*          request may fail, timers fire when their delay has elapsed.    *)
(* SpecApi  the API alone, driven by HTTP requests with arbitrary JSON     *)
(*          bodies and arbitrary :id parameters.                           *)
(* SpecView the filter, search and sort of the task list, over every       *)
(*          cache of a few tasks.                                          *)
(* SpecUndo the loaded page: deletes and clicks on Undo.                   *)
(* SpecImport  the page with its import and clear-database dialogs.        *)
(***************************************************************************)
EXTENDS Integers, Sequences, FiniteSets, TLC

(***************************************************************************)
(* Bounds of the model.                                                    *)
(***************************************************************************)
\* requests the client may send in one behaviour (the list-fetch included)
MaxReq == 3
\* tasks in the cache whose view is computed
MaxCache == 3
\* tasks the store holds when the page is loaded
MaxSeed == 2
\* confirm modals the user may open in one behaviour
MaxModals == 2
\* documents the store may ever have created (ObjectIds handed out)
MaxDocs == 2
\* the server clock (Date.now) runs from 0 to MaxNow
MaxNow == 1
\* fields of an arbitrary request body that carry a value
MaxFields == 2
\* requests an arbitrary HTTP client sends in one behaviour
MaxApiReq == 2

(***************************************************************************)
(* JavaScript values as they occur in JSON bodies and in documents.  Every *)
(* value is a record of the same shape: t is the type tag, s the           *)
(* characters of a string, n the number (1/0 for true/false, the instant   *)
(* of a Date).                                                             *)
(***************************************************************************)
Undefined == [t |-> "undefined", s |-> <<>>, n |-> 0]
Null == [t |-> "null", s |-> <<>>, n |-> 0]
Str(chars) == [t |-> "string", s |-> chars, n |-> 0]
Num(k) == [t |-> "number", s |-> <<>>, n |-> k]
Bool(b) == [t |-> "boolean", s |-> <<>>, n |-> IF b THEN 1 ELSE 0]
DateV(k) == [t |-> "date", s |-> <<>>, n |-> k]

\* !v
Falsy(v) ==
    \/ v.t \in {"undefined", "null"}
    \/ v.t = "string" /\ v.s = <<>>
    \/ v.t \in {"number", "boolean"} /\ v.n = 0

\* a || b
OrElse(a, b) == IF Falsy(a) THEN b ELSE a

Digits == <<"0", "1", "2", "3", "4", "5", "6", "7", "8", "9">>
DigitChars == {Digits[i] : i \in 1..10}
DigitVal(c) == (CHOOSE i \in 1..10 : Digits[i] = c) - 1

\* String.prototype.trim
RECURSIVE TrimLeft(_)
TrimLeft(s) == IF s # <<>> /\ Head(s) = " " THEN TrimLeft(Tail(s)) ELSE s
RECURSIVE TrimRight(_)
TrimRight(s) ==
    IF s # <<>> /\ s[Len(s)] = " " THEN TrimRight(SubSeq(s, 1, Len(s) - 1)) ELSE s
Trim(s) == TrimRight(TrimLeft(s))

\* The two textual forms of an instant k: the value of <input type="date">
\* and Date.prototype.toISOString (what JSON.stringify writes for a Date).
DateOnly(k) == <<"D", Digits[k + 1]>>
ToISOString(k) == <<"D", Digits[k + 1], "T", "Z">>
NaN == -1
\* new Date(string).valueOf()
ParseDate(s) ==
    IF /\ Len(s) \in {2, 4}
       /\ s[1] = "D"
       /\ s[2] \in DigitChars
       /\ Len(s) = 4 => (s[3] = "T" /\ s[4] = "Z")
    THEN DigitVal(s[2])
    ELSE NaN

(***************************************************************************)
(* src/backend/models/Todo.js                                              *)
(***************************************************************************)
S_todo == <<"t", "o", "d", "o">>
S_progress == <<"p", "r", "o", "g", "r", "e", "s", "s">>
S_completed == <<"c", "o", "m", "p", "l", "e", "t", "e", "d">>
S_low == <<"l", "o", "w">>
S_medium == <<"m", "e", "d", "i", "u", "m">>
S_high == <<"h", "i", "g", "h">>
S_general == <<"g", "e", "n", "e", "r", "a", "l">>
S_work == <<"w", "o", "r", "k">>
S_personal == <<"p", "e", "r", "s", "o", "n", "a", "l">>
S_shopping == <<"s", "h", "o", "p", "p", "i", "n", "g">>
S_health == <<"h", "e", "a", "l", "t", "h">>
S_study == <<"s", "t", "u", "d", "y">>

StatusEnum == {S_todo, S_progress, S_completed}
PriorityEnum == {S_low, S_medium, S_high}
CategoryEnum == {S_general, S_work, S_personal, S_shopping, S_health, S_study}

\* Mongoose's cast of a value to the schema type String: null and
\* undefined stay as they are, numbers and booleans are written out.
CastString(v) ==
    CASE v.t = "string" -> v
      [] v.t = "number" -> Str(<<Digits[v.n + 1]>>)
      [] v.t = "boolean" -> Str(IF v.n = 1 THEN <<"t", "r", "u", "e">>
                                           ELSE <<"f", "a", "l", "s", "e">>)
      [] OTHER -> v

\* Mongoose's cast of a value to the schema type Date: null, undefined and
\* '' give null, a number is an instant, a string is parsed; the result is
\* a Date, null, or a cast error (castError).
castError == [t |-> "error", s |-> <<>>, n |-> 0]
CastDate(v) ==
    CASE v.t \in {"undefined", "null"} -> Null
      [] v.t = "date" -> v
      [] v.t = "number" -> DateV(v.n)
      [] v.t = "string" ->
            IF v.s = <<>> THEN Null
            ELSE IF ParseDate(v.s) # NaN THEN DateV(ParseDate(v.s))
            ELSE castError
      [] OTHER -> castError

\* The installed Mongoose: package.json is not among the sources, and the
\* enum validator of Mongoose 8 and later lets null pass on a path that is
\* not required, while earlier versions reject it.  The version is fixed
\* when the server is installed and never changes afterwards.
VARIABLE enumAllowsNull

\* the validator of `enum: [...]`: run on the cast value; Mongoose runs no
\* validator on undefined
EnumValidator(v, enumValues) ==
    \/ v.t = "undefined"
    \/ v.t = "null" /\ enumAllowsNull
    \/ v.t = "string" /\ v.s \in enumValues

\* the validator of `required: true` on a String path
RequiredValidator(v) == v.t = "string" /\ v.s # <<>>

\* the paths of todoSchema a request can set
Fields == {"title", "status", "priority", "category", "dueDate"}
EnumOf(f) ==
    CASE f = "status" -> StatusEnum
      [] f = "priority" -> PriorityEnum
      [] f = "category" -> CategoryEnum
DefaultOf(f) ==
    CASE f = "status" -> Str(S_todo)
      [] f = "priority" -> Str(S_medium)
      [] f = "category" -> Str(S_general)
      [] f = "dueDate" -> Null

\* the cast of a value to the type of path f
CastPath(f, v) ==
    IF f = "dueDate" THEN CastDate(v)
    ELSE IF f = "title" /\ v.t = "string" THEN Str(Trim(v.s))
    ELSE CastString(v)

\* the validators of path f, on a cast value
ValidPath(f, v) ==
    CASE f = "title" -> RequiredValidator(v)
      [] f = "dueDate" -> v # castError
      [] OTHER -> EnumValidator(v, EnumOf(f))

\* the toast of an import: none yet, the file was refused, or the counts
NoToast == [kind |-> "none", ok |-> 0, failed |-> 0]
InvalidToast == [kind |-> "invalid", ok |-> 0, failed |-> 0]
CountsToast(ok, failed) == [kind |-> "counts", ok |-> ok, failed |-> failed]

\* state.currentFilter of the tab that shows every task
S_all == <<"a", "l", "l">>

(***************************************************************************)
(* State.                                                                  *)
(***************************************************************************)
VARIABLES
    \* the todos collection, the ObjectIds handed out, the server's Date.now
    store, nextId, now,
    \* the HTTP requests and responses in flight
    net,
    \* src/frontend/app.js `state`, the timer hideUndoSnackbar leaves
    \* behind, and what the page shows
    todos, deletedTodo, isLoading, undoTimeout, pendingClears, dom, snackbar,
    \* the criteria of the view and the list renderTodos last showed
    searchInput, currentFilter, currentSort, searchQuery, view,
    \* the confirm modal: whether it is shown, how many were opened, the
    \* click handlers attached to its confirm button, the onConfirm callbacks
    \* that are running or have run, and the toast of the last import
    modalShown, modalsOpened, confirmHandlers, onConfirms, importToast,
    \* the client's progress: initializeApp has run, requests sent so far
    booted, sent,
    \* history kept for the properties: the undo window of the latest delete,
    \* the delete that no other user action has followed, and whether a
    \* store fault or a network error has occurred
    undoWindow, fresh, faulty,
    \* history kept for the properties: every document ever created, in
    \* creation order, with the deleted task it re-creates (0 when none)
    created

serverVars == <<store, nextId, now, enumAllowsNull, created>>
modalVars ==
    <<modalShown, modalsOpened, confirmHandlers, onConfirms, importToast>>
viewVars == <<searchInput, currentFilter, currentSort, searchQuery, view>>
clientVars ==
    <<todos, deletedTodo, isLoading, undoTimeout, pendingClears, dom, snackbar,
      booted>>
historyVars == <<undoWindow, fresh, faulty>>
vars == <<serverVars, net, sent, clientVars, viewVars, modalVars, historyVars>>

(***************************************************************************)
(* Documents, their JSON form, request bodies, messages.                   *)
(***************************************************************************)
\* the _id of the k-th document created
ObjectId(k) == k
\* ids of a route parameter: well-formed ones are ObjectIds, created or not
MalformedId == 0 - 1
NoId == 0
ObjectIdIsValid(id) == id >= 1

\* res.json(doc): Dates are written with toISOString
ToJSON(doc) ==
    [doc EXCEPT !.dueDate = IF doc.dueDate.t = "date"
                            THEN Str(ToISOString(doc.dueDate.n)) ELSE Null,
                !.createdAt = Str(ToISOString(doc.createdAt.n))]

BodyFields == Fields \cup {"_id", "createdAt"}
EmptyBody == [f \in BodyFields |-> Undefined]
Supplied(body) == {f \in BodyFields : body[f] # Undefined}

Msg(rid, method, id, body, undo) ==
    [rid |-> rid, method |-> method, id |-> id, body |-> body, undo |-> undo,
     phase |-> "sent", status |-> 0, reply |-> <<>>]
Reply(r, status, reply) ==
    [r EXCEPT !.phase = "replied", !.status = status, !.reply = reply]
Respond(r, status, reply) == net' = (net \ {r}) \cup {Reply(r, status, reply)}

Pending(method) == {r \in net : r.phase = "sent" /\ r.method = method}

(***************************************************************************)
(* src/backend/server.js: the route handlers.  The store applies each      *)
(* operation atomically.                                                   *)
(***************************************************************************)
\* the lists Todo.find().sort({createdAt: -1}) may return: newest first, in
\* any order among documents of equal createdAt
SortedNewestFirst(docs) ==
    {q \in [1..Cardinality(docs) -> docs] :
        /\ \A i, j \in DOMAIN q : i # j => q[i] # q[j]
        /\ \A i, j \in DOMAIN q : i < j => q[i].createdAt.n >= q[j].createdAt.n}

\* app.get('/api/todos')
GetTodos(r) ==
    /\ r \in Pending("GET")
    /\ \E q \in SortedNewestFirst(store) :
          Respond(r, 200, [i \in DOMAIN q |-> ToJSON(q[i])])
    /\ UNCHANGED <<serverVars, viewVars, modalVars, sent, clientVars, historyVars>>

\* new Todo({...}) of the POST handler: the paths after casting
NewTodo(body) ==
    [f \in Fields |->
        IF f = "title" THEN CastPath(f, body.title)
        ELSE CastPath(f, OrElse(body[f], DefaultOf(f)))]

\* mutant: the POST handler tests `!title` alone
PostOutcomeNoBlankTest(body) ==
    IF Falsy(body.title) THEN [status |-> 400, doc |-> <<>>]
    ELSE IF body.title.t # "string" THEN [status |-> 500, doc |-> <<>>]
    ELSE IF \E f \in Fields : ~ValidPath(f, NewTodo(body)[f])
         THEN [status |-> 500, doc |-> <<>>]
    ELSE [status |-> 201, doc |-> <<NewTodo(body)>>]

\* the outcome of the POST handler: the status and the document saved
PostOutcome(body) ==
    IF Falsy(body.title) THEN [status |-> 400, doc |-> <<>>]
    ELSE IF body.title.t # "string" THEN [status |-> 500, doc |-> <<>>]
    ELSE IF Trim(body.title.s) = <<>> THEN [status |-> 400, doc |-> <<>>]
    ELSE IF \E f \in Fields : ~ValidPath(f, NewTodo(body)[f])
         THEN [status |-> 500, doc |-> <<>>]
    ELSE [status |-> 201, doc |-> <<NewTodo(body)>>]

\* mutant: the _id is the number of documents in the collection
SavedCountingDocs(paths) ==
    [_id |-> ObjectId(Cardinality(store) + 1), title |-> paths.title,
     status |-> paths.status, priority |-> paths.priority,
     category |-> paths.category, dueDate |-> paths.dueDate,
     createdAt |-> DateV(now)]

\* todo.save(): the store assigns _id, the schema default createdAt
Saved(paths) ==
    [_id |-> ObjectId(nextId + 1), title |-> paths.title,
     status |-> paths.status, priority |-> paths.priority,
     category |-> paths.category, dueDate |-> paths.dueDate,
     createdAt |-> DateV(now)]

\* the record kept of a created document: its _id and createdAt, the
\* request that created it, and the _id of the deleted task when the
\* request is an undo
Created(doc, r) ==
    [_id |-> doc._id, createdAt |-> doc.createdAt, rid |-> r.rid,
     undo |-> IF r.undo # <<>> THEN r.undo[1]._id ELSE 0]

\* app.post('/api/todos')
PostTodos(r) ==
    /\ r \in Pending("POST")
    /\ LET out == PostOutcome(r.body) IN
          IF out.status = 201
          THEN /\ store' = store \cup {Saved(out.doc[1])}
               /\ nextId' = nextId + 1
               /\ created' = Append(created, Created(Saved(out.doc[1]), r))
               /\ Respond(r, 201, <<ToJSON(Saved(out.doc[1]))>>)
          ELSE /\ Respond(r, out.status, <<>>)
               /\ UNCHANGED <<store, nextId, created>>
    /\ UNCHANGED <<now, enumAllowsNull, sent, clientVars, viewVars, modalVars,
                   historyVars>>

\* the `updates` object of the PUT handler: the paths it sets
UpdatePaths(body) == {f \in Fields : body[f] # Undefined}
\* ... and their values after Mongoose has cast them
Updates(body) == [f \in UpdatePaths(body) |-> CastPath(f, body[f])]

\* the outcome of the PUT handler for a well-formed id
PutOutcome(id, body, docs) ==
    IF body.title # Undefined /\ body.title.t # "string" THEN 500
    ELSE IF \E f \in UpdatePaths(body) : ~ValidPath(f, Updates(body)[f]) THEN 500
    ELSE IF ~\E d \in docs : d._id = id THEN 404
    ELSE 200

\* mutant: the update replaces the document, paths not supplied fall back
\* to their defaults
UpdatedReplacing(doc, body) ==
    [k \in DOMAIN doc |->
        IF k \in UpdatePaths(body) THEN Updates(body)[k]
        ELSE IF k \in Fields \ {"title"} THEN DefaultOf(k)
        ELSE doc[k]]

\* findByIdAndUpdate: the document with the updates applied
Updated(doc, body) ==
    [k \in DOMAIN doc |->
        IF k \in UpdatePaths(body) THEN Updates(body)[k] ELSE doc[k]]

\* app.put('/api/todos/:id')
PutTodo(r) ==
    /\ r \in Pending("PUT")
    /\ IF ~ObjectIdIsValid(r.id)
       THEN Respond(r, 400, <<>>) /\ UNCHANGED store
       ELSE LET status == PutOutcome(r.id, r.body, store) IN
            IF status = 200
            THEN LET doc == CHOOSE d \in store : d._id = r.id IN
                 /\ store' = (store \ {doc}) \cup {Updated(doc, r.body)}
                 /\ Respond(r, 200, <<ToJSON(Updated(doc, r.body))>>)
            ELSE Respond(r, status, <<>>) /\ UNCHANGED store
    /\ UNCHANGED <<nextId, now, enumAllowsNull, created, sent, clientVars,
                   viewVars, modalVars, historyVars>>

\* mutant: the delete takes every document up to the id
RemainingAbove(docs, id) == {d \in docs : d._id > id}

\* findByIdAndDelete: the documents that stay
Remaining(docs, id) == {d \in docs : d._id # id}

\* app.delete('/api/todos/:id')
DeleteTodo(r) ==
    /\ r \in Pending("DELETE")
    /\ IF ~ObjectIdIsValid(r.id)
       THEN Respond(r, 400, <<>>) /\ UNCHANGED store
       ELSE IF ~\E d \in store : d._id = r.id
       THEN Respond(r, 404, <<>>) /\ UNCHANGED store
       ELSE /\ store' = Remaining(store, r.id)
            /\ Respond(r, 200, <<ToJSON(CHOOSE d \in store : d._id = r.id)>>)
    /\ UNCHANGED <<nextId, now, enumAllowsNull, created, sent, clientVars,
                   viewVars, modalVars, historyVars>>

\* app.delete('/api/todos')
DeleteTodos(r) ==
    /\ r \in Pending("DELETE_ALL")
    /\ store' = {}
    /\ Respond(r, 200, <<>>)
    /\ UNCHANGED <<nextId, now, enumAllowsNull, created, sent, clientVars,
                   viewVars, modalVars, historyVars>>

\* a store fault: the awaited store call rejects, the handler's catch
\* answers 500
StoreFault(r) ==
    /\ r \in net /\ r.phase = "sent"
    /\ Respond(r, 500, <<>>)
    /\ faulty' = TRUE
    /\ UNCHANGED <<serverVars, viewVars, modalVars, sent, clientVars, undoWindow, fresh>>

\* Date.now moves on
TickClock ==
    /\ now < MaxNow
    /\ now' = now + 1
    /\ UNCHANGED <<store, nextId, enumAllowsNull, created, net, sent,
                   clientVars, viewVars, modalVars, historyVars>>

Server ==
    \/ \E r \in net : GetTodos(r)
    \/ \E r \in net : PostTodos(r)
    \/ \E r \in net : PutTodo(r)
    \/ \E r \in net : DeleteTodo(r)
    \/ \E r \in net : DeleteTodos(r)
    \/ \E r \in net : StoreFault(r)
    \/ TickClock

(***************************************************************************)
(* The initial state: the page is about to load; the store holds what      *)
(* earlier sessions left in it.                                            *)
(***************************************************************************)
SeedTodo(k) ==
    IF k = 1
    THEN [_id |-> ObjectId(1), title |-> Str(<<"a">>), status |-> Str(S_todo),
          priority |-> Str(S_medium), category |-> Str(S_general),
          dueDate |-> Null, createdAt |-> DateV(0)]
    ELSE [_id |-> ObjectId(k), title |-> Str(<<"b", "A">>),
          status |-> Str(S_progress), priority |-> Str(S_high),
          category |-> Str(S_work), dueDate |-> DateV(1),
          createdAt |-> DateV(0)]

Init ==
    /\ \E k \in 0..MaxSeed :
          /\ store = {SeedTodo(i) : i \in 1..k}
          /\ nextId = k
          /\ created = [i \in 1..k |->
                          [_id |-> SeedTodo(i)._id,
                           createdAt |-> SeedTodo(i).createdAt,
                           rid |-> 0, undo |-> 0]]
    /\ now = 0
    /\ enumAllowsNull \in BOOLEAN
    /\ net = {}
    /\ todos = <<>>
    /\ deletedTodo = <<>>
    /\ isLoading = FALSE
    /\ undoTimeout = <<>>
    /\ pendingClears = <<>>
    /\ dom = {}
    /\ snackbar = FALSE
    /\ booted = FALSE
    /\ sent = 0
    /\ searchInput = <<>>
    /\ currentFilter = S_all
    /\ currentSort = "newest"
    /\ searchQuery = <<>>
    /\ view = <<>>
    /\ modalShown = FALSE
    /\ modalsOpened = 0
    /\ confirmHandlers = <<>>
    /\ onConfirms = {}
    /\ importToast = NoToast
    /\ undoWindow = <<>>
    /\ fresh = <<>>
    /\ faulty = FALSE

(***************************************************************************)
(* SpecApi: any HTTP client sends any request, one at a time.              *)
(***************************************************************************)
Bogus == <<"x">>
TitleValues ==
    {Null, Str(<<>>), Str(<<" ">>), Str(<<" ", "c", " ">>), Num(1)}
EnumValues(f) ==
    {Null, Str(<<>>), Num(0), Bool(FALSE), Bool(TRUE), Str(Bogus)}
      \cup {Str(CHOOSE e \in EnumOf(f) : Str(e) # DefaultOf(f))}
DueDateValues == {Null, Str(DateOnly(1)), Str(Bogus)}
ValuesOf(f) ==
    CASE f = "title" -> TitleValues
      [] f = "dueDate" -> DueDateValues
      [] f = "_id" -> {Num(9)}
      [] f = "createdAt" -> {Str(ToISOString(9))}
      [] OTHER -> EnumValues(f)

\* the bodies that supply at most k fields
RECURSIVE BodiesWith(_)
BodiesWith(k) ==
    IF k = 0 THEN {EmptyBody}
    ELSE BodiesWith(k - 1) \cup
         UNION {{[b EXCEPT ![f] = v] : v \in ValuesOf(f)} :
                    b \in BodiesWith(k - 1), f \in BodyFields}
Bodies == BodiesWith(MaxFields)

IdParams == {ObjectId(k) : k \in 1..(MaxDocs + 1)} \cup {MalformedId}

ApiRequest ==
    /\ net = {}
    /\ sent < MaxApiReq
    /\ sent' = sent + 1
    /\ \/ net' = {Msg(0, "GET", NoId, EmptyBody, <<>>)}
       \/ \E b \in Bodies :
             /\ nextId < MaxDocs
             /\ net' = {Msg(0, "POST", NoId, b, <<>>)}
       \/ \E b \in Bodies, id \in IdParams : net' = {Msg(0, "PUT", id, b, <<>>)}
       \/ \E id \in IdParams : net' = {Msg(0, "DELETE", id, EmptyBody, <<>>)}
       \/ net' = {Msg(0, "DELETE_ALL", NoId, EmptyBody, <<>>)}
    /\ UNCHANGED <<serverVars, viewVars, modalVars, clientVars, historyVars>>

\* the response reaches the HTTP client
ApiResponse ==
    /\ \E r \in net : r.phase = "replied" /\ net' = net \ {r}
    /\ UNCHANGED <<serverVars, viewVars, modalVars, sent, clientVars, historyVars>>

NextApi == ApiRequest \/ ApiResponse \/ Server
SpecApi == Init /\ [][NextApi]_vars

(***************************************************************************)
(* src/frontend/app.js: the client.  Each handler runs up to its `await`   *)
(* in one step and sends one request; what follows the await runs in one   *)
(* step when the response (or the failure) arrives.                        *)
(***************************************************************************)
UNDO_DURATION == 5000
ANIMATION_DURATION == 300

\* what the user can type and select in the form
InputTitles == {<<" ", "d">>, <<" ">>}
InputPriorities == {S_high}
InputCategories == {S_general}
InputDueDates == {<<>>, DateOnly(1)}

\* JSON.stringify of an object literal with the given properties
BodyOf(props) ==
    [f \in BodyFields |-> IF f \in DOMAIN props THEN props[f] ELSE Undefined]

\* state.todos.findIndex(todo => todo._id === id), 0 when there is none
FindIndex(list, id) ==
    IF \E i \in DOMAIN list : list[i]._id = id
    THEN CHOOSE i \in DOMAIN list :
            list[i]._id = id /\ \A j \in 1..(i - 1) : list[j]._id # id
    ELSE 0

\* state.todos.splice(index, 1)
Splice(list, index) ==
    SubSeq(list, 1, index - 1) \o SubSeq(list, index + 1, Len(list))

\* renderTodos: the tasks on the page, each with its handlers bound to the
\* _id, status and title it was rendered with
Rendered(list) == {list[i] : i \in DOMAIN list}

\* apiRequest: fetch(...) is called
Send(method, id, body, undo) ==
    /\ sent < MaxReq
    /\ sent' = sent + 1
    /\ net' = net \cup {Msg(sent + 1, method, id, body, undo)}

\* apiRequest returns the parsed body
Resolves(r) == r.phase = "replied" /\ r.status \in 200..299
\* apiRequest throws: the response is not ok, or fetch itself rejects (the
\* request or its response is lost)
Throws(r) ==
    \/ r.phase = "replied" /\ r.status \notin 200..299
    \/ r.phase \in {"sent", "replied"}
\* the catch block runs although no error response was sent: a network error
NetworkError(r) ==
    /\ faulty' = (faulty \/ r.phase = "sent" \/ Resolves(r))
    /\ UNCHANGED <<undoWindow, fresh>>

\* initializeApp: setupEventListeners, then fetchTodos up to its await
InitializeApp ==
    /\ ~booted
    /\ booted' = TRUE
    /\ isLoading' = TRUE
    /\ Send("GET", NoId, EmptyBody, <<>>)
    /\ UNCHANGED <<serverVars, viewVars, modalVars, todos, deletedTodo, undoTimeout, pendingClears,
                   dom, snackbar, historyVars>>

\* fetchTodos after the await
FetchTodosResolve(r) ==
    /\ r \in net /\ r.method = "GET" /\ Resolves(r)
    /\ todos' = r.reply
    /\ dom' = Rendered(r.reply)
    /\ isLoading' = FALSE
    /\ net' = net \ {r}
    /\ UNCHANGED <<serverVars, viewVars, modalVars, sent, deletedTodo, undoTimeout, pendingClears,
                   snackbar, booted, historyVars>>

\* the todos fetchTodos' catch block leaves in the cache
FetchFailedTodos(list) == <<>>

\* fetchTodos: catch and finally
FetchTodosReject(r) ==
    /\ r \in net /\ r.method = "GET" /\ Throws(r)
    /\ todos' = FetchFailedTodos(todos)
    /\ isLoading' = FALSE
    /\ net' = net \ {r}
    /\ NetworkError(r)
    /\ UNCHANGED <<serverVars, viewVars, modalVars, sent, deletedTodo, undoTimeout, pendingClears,
                   dom, snackbar, booted>>

\* handleAddTodo up to createTodo's await
HandleAddTodo ==
    /\ booted
    /\ \E title \in InputTitles, priority \in InputPriorities,
          category \in InputCategories, dueDate \in InputDueDates :
          /\ Trim(title) # <<>>
          /\ Send("POST", NoId,
                  BodyOf([title |-> Str(Trim(title)), status |-> Str(S_todo),
                          priority |-> Str(priority),
                          category |-> Str(category),
                          dueDate |-> OrElse(Str(dueDate), Null)]),
                  <<>>)
    /\ fresh' = <<>>
    /\ UNCHANGED <<serverVars, viewVars, modalVars, clientVars, undoWindow, faulty>>

\* mutant: handleUndo forgets the due date
UndoDataNoDueDate(todo) ==
    [title |-> todo.title, status |-> todo.status, priority |-> todo.priority,
     category |-> todo.category, dueDate |-> Null]

\* the todoData handleUndo builds from the undo slot
UndoData(todo) ==
    [title |-> todo.title, status |-> todo.status, priority |-> todo.priority,
     category |-> todo.category, dueDate |-> todo.dueDate]

UndoInFlight == \E r \in net : r.undo # <<>>

\* handleUndo up to createTodo's await
HandleUndo ==
    /\ booted
    /\ deletedTodo # <<>>
    /\ Send("POST", NoId, BodyOf(UndoData(deletedTodo[1])), deletedTodo)
    /\ undoWindow' = IF undoWindow # <<>> /\ undoWindow[1].todo = deletedTodo[1]
                     THEN <<>> ELSE undoWindow
    /\ fresh' = IF fresh = deletedTodo /\ ~UndoInFlight THEN fresh ELSE <<>>
    /\ UNCHANGED <<serverVars, viewVars, modalVars, clientVars, faulty>>

\* hideUndoSnackbar: the pending undo timer is cancelled, and a timer that
\* no one can cancel is left to empty the undo slot
HideUndoSnackbar ==
    /\ snackbar' = FALSE
    /\ undoTimeout' = <<>>
    /\ pendingClears' = Append(pendingClears, ANIMATION_DURATION)

\* the values importTodos sends for an element of the file
ImportData(todo) ==
    [title |-> todo.title, status |-> OrElse(todo.status, Str(S_todo)),
     priority |-> OrElse(todo.priority, Str(S_medium)),
     category |-> OrElse(todo.category, Str(S_general)),
     dueDate |-> OrElse(todo.dueDate, Null)]

\* the onConfirm callback that awaits request r, if there is one
RunOf(r) == {c \in onConfirms : ~c.done /\ c.rid = r.rid}

\* elements.modalConfirm.removeEventListener('click', confirmHandler)
RemoveEventListener(handlers, h) == SelectSeq(handlers, LAMBDA x : x.h # h)

\* importTodos after the awaited createTodo has returned or thrown: the
\* count, then the create of the next element, or else the toasts and the
\* end of the confirm handler, which removes itself
ImportContinues(r, succeeded) ==
    IF RunOf(r) = {}
    THEN net' = net \ {r} /\ UNCHANGED <<sent, modalVars>>
    ELSE LET c == CHOOSE c \in RunOf(r) : TRUE
             counted ==
                 [c EXCEPT !.ok = IF succeeded THEN @ + 1 ELSE @,
                           !.failed = IF succeeded THEN @ ELSE @ + 1]
         IN  IF c.i < Len(c.items)
             THEN /\ sent < MaxReq
                  /\ sent' = sent + 1
                  /\ net' = (net \ {r}) \cup
                        {Msg(sent + 1, "POST", NoId,
                             BodyOf(ImportData(c.items[c.i + 1])), <<>>)}
                  /\ onConfirms' = (onConfirms \ {c}) \cup
                        {[counted EXCEPT !.i = @ + 1, !.rid = sent + 1,
                                         !.rids = Append(@, sent + 1)]}
                  /\ UNCHANGED <<modalShown, modalsOpened, confirmHandlers,
                                 importToast>>
             ELSE /\ net' = net \ {r}
                  /\ onConfirms' = (onConfirms \ {c}) \cup
                        {[counted EXCEPT !.done = TRUE, !.rid = 0]}
                  /\ confirmHandlers' = RemoveEventListener(confirmHandlers, c.h)
                  /\ importToast' = CountsToast(counted.ok, counted.failed)
                  /\ UNCHANGED <<sent, modalShown, modalsOpened>>

\* createTodo after the await, and then the rest of its caller: handleUndo
\* empties the slot and hides the snackbar, handleAddTodo resets the form,
\* importTodos goes on with its loop
CreateTodoResolve(r) ==
    /\ r \in net /\ r.method = "POST" /\ Resolves(r)
    /\ todos' = <<r.reply[1]>> \o todos
    /\ dom' = Rendered(todos')
    /\ IF r.undo # <<>>
       THEN deletedTodo' = <<>> /\ HideUndoSnackbar
       ELSE UNCHANGED <<deletedTodo, snackbar, undoTimeout, pendingClears>>
    /\ ImportContinues(r, TRUE)
    /\ UNCHANGED <<serverVars, viewVars, isLoading, booted, historyVars>>

\* createTodo: catch; its callers log the error
CreateTodoReject(r) ==
    /\ r \in net /\ r.method = "POST" /\ Throws(r)
    /\ ImportContinues(r, FALSE)
    /\ NetworkError(r)
    /\ UNCHANGED <<serverVars, viewVars, clientVars>>

\* handleToggleComplete up to updateTodo's await
HandleToggleComplete ==
    /\ booted
    /\ \E t \in dom :
          Send("PUT", t._id,
               BodyOf([status |-> IF t.status = Str(S_completed)
                                  THEN Str(S_todo) ELSE Str(S_completed)]),
               <<>>)
    /\ fresh' = <<>>
    /\ UNCHANGED <<serverVars, viewVars, modalVars, clientVars, undoWindow, faulty>>

\* cycleStatus' statusCycle
StatusCycle(status) ==
    CASE status = Str(S_todo) -> Str(S_progress)
      [] status = Str(S_progress) -> Str(S_completed)
      [] status = Str(S_completed) -> Str(S_todo)
      [] OTHER -> Undefined

\* cycleStatus and handleStatusChange up to updateTodo's await
CycleStatus ==
    /\ booted
    /\ \E t \in dom :
          Send("PUT", t._id, BodyOf([status |-> StatusCycle(t.status)]), <<>>)
    /\ fresh' = <<>>
    /\ UNCHANGED <<serverVars, viewVars, modalVars, clientVars, undoWindow, faulty>>

\* handleEditTodo's saveEdit up to updateTodo's await
SaveEdit ==
    /\ booted
    /\ \E t \in dom, title \in InputTitles :
          /\ Trim(title) # <<>>
          /\ Send("PUT", t._id, BodyOf([title |-> Str(Trim(title))]), <<>>)
    /\ fresh' = <<>>
    /\ UNCHANGED <<serverVars, viewVars, modalVars, clientVars, undoWindow, faulty>>

\* updateTodo after the await
UpdateTodoResolve(r) ==
    /\ r \in net /\ r.method = "PUT" /\ Resolves(r)
    /\ LET index == FindIndex(todos, r.id) IN
          IF index # 0
          THEN /\ todos' = [todos EXCEPT ![index] = r.reply[1]]
               /\ dom' = Rendered(todos')
          ELSE UNCHANGED <<todos, dom>>
    /\ net' = net \ {r}
    /\ UNCHANGED <<serverVars, viewVars, modalVars, sent, deletedTodo, isLoading, undoTimeout,
                   pendingClears, snackbar, booted, historyVars>>

\* updateTodo: catch
UpdateTodoReject(r) ==
    /\ r \in net /\ r.method = "PUT" /\ Throws(r)
    /\ net' = net \ {r}
    /\ NetworkError(r)
    /\ UNCHANGED <<serverVars, viewVars, modalVars, sent, clientVars>>

\* handleDeleteTodo up to deleteTodo's await
HandleDeleteTodo ==
    /\ booted
    /\ \E t \in dom : Send("DELETE", t._id, EmptyBody, <<>>)
    /\ fresh' = <<>>
    /\ UNCHANGED <<serverVars, viewVars, modalVars, clientVars, undoWindow, faulty>>

\* deleteTodo after the await; showUndoSnackbar replaces the undo timer
DeleteTodoResolve(r) ==
    /\ r \in net /\ r.method = "DELETE" /\ Resolves(r)
    /\ LET index == FindIndex(todos, r.id) IN
          IF index # 0
          THEN /\ deletedTodo' = <<todos[index]>>
               /\ todos' = Splice(todos, index)
               /\ dom' = Rendered(todos')
               /\ undoTimeout' = <<UNDO_DURATION>>
               /\ snackbar' = TRUE
               /\ undoWindow' = <<[todo |-> todos[index], left |-> UNDO_DURATION]>>
               /\ fresh' = IF net = {r} THEN <<todos[index]>> ELSE <<>>
          ELSE UNCHANGED <<deletedTodo, todos, dom, undoTimeout, snackbar,
                           undoWindow, fresh>>
    /\ net' = net \ {r}
    /\ UNCHANGED <<serverVars, viewVars, modalVars, sent, isLoading, pendingClears, booted, faulty>>

\* deleteTodo: catch
DeleteTodoReject(r) ==
    /\ r \in net /\ r.method = "DELETE" /\ Throws(r)
    /\ net' = net \ {r}
    /\ NetworkError(r)
    /\ UNCHANGED <<serverVars, viewVars, modalVars, sent, clientVars>>

\* showConfirmModal: the modal is shown and a new click handler is attached
\* to its confirm button
ShowConfirmModal(kind, items) ==
    /\ modalsOpened < MaxModals
    /\ modalsOpened' = modalsOpened + 1
    /\ modalShown' = TRUE
    /\ confirmHandlers' =
          Append(confirmHandlers,
                 [h |-> modalsOpened + 1, kind |-> kind, items |-> items])

\* handleClearDatabase
HandleClearDatabase ==
    /\ booted /\ ~modalShown
    /\ Len(todos) # 0
    /\ ShowConfirmModal("clear", <<>>)
    /\ UNCHANGED <<serverVars, viewVars, net, sent, clientVars, onConfirms,
                   importToast, historyVars>>

\* the JSON files the user can pick: arrays of no, one or two elements, and
\* arrays with an element whose title is missing, empty or not a string
ImportFiles ==
    {<<>>,
     <<BodyOf([title |-> Str(<<"i">>)])>>,
     <<BodyOf([title |-> Str(<<" ">>)]),
       BodyOf([title |-> Str(<<"i">>), priority |-> Str(S_low),
               dueDate |-> Str(ToISOString(1)), _id |-> Num(9)])>>,
     <<BodyOf([title |-> Str(<<"i">>)]), BodyOf([status |-> Str(S_todo)])>>,
     <<BodyOf([title |-> Str(<<>>)])>>,
     <<BodyOf([title |-> Num(1)])>>}

\* importedTodos.every(todo => todo.title && typeof todo.title === 'string')
IsValidFormat(importedTodos) ==
    \A i \in DOMAIN importedTodos :
        ~Falsy(importedTodos[i].title) /\ importedTodos[i].title.t = "string"

\* handleImport, for a JSON file that holds an array
HandleImport ==
    /\ booted /\ ~modalShown
    /\ \E importedTodos \in ImportFiles :
          IF IsValidFormat(importedTodos)
          THEN ShowConfirmModal("import", importedTodos)
                   /\ UNCHANGED importToast
          ELSE importToast' = InvalidToast
                   /\ UNCHANGED <<modalShown, modalsOpened, confirmHandlers>>
    /\ UNCHANGED <<serverVars, viewVars, net, sent, clientVars, onConfirms,
                   historyVars>>

\* hideModal, by the cancel button or the overlay: the click handlers stay
\* attached to the confirm button
HideModal ==
    /\ modalShown
    /\ modalShown' = FALSE
    /\ UNCHANGED <<serverVars, viewVars, net, sent, clientVars, modalsOpened,
                   confirmHandlers, onConfirms, importToast, historyVars>>

\* a click on the confirm button: every handler attached to it runs, in the
\* order of attachment; each hides the modal and runs its onConfirm up to
\* the first await (the DELETE of clearAllTodos, the first create of
\* importTodos); an import of no element ends at once
ConfirmHandler ==
    LET Awaits(k) ==
            confirmHandlers[k].kind = "clear" \/ confirmHandlers[k].items # <<>>
        RidOf(k) == sent + Cardinality({m \in 1..k : Awaits(m)})
        Request(k) ==
            IF confirmHandlers[k].kind = "clear"
            THEN Msg(RidOf(k), "DELETE_ALL", NoId, EmptyBody, <<>>)
            ELSE Msg(RidOf(k), "POST", NoId,
                     BodyOf(ImportData(confirmHandlers[k].items[1])), <<>>)
        Run(k) ==
            [kind |-> confirmHandlers[k].kind, h |-> confirmHandlers[k].h,
             shown |-> k = Len(confirmHandlers),
             items |-> confirmHandlers[k].items,
             i |-> IF Awaits(k) THEN 1 ELSE 0, ok |-> 0, failed |-> 0,
             rid |-> IF Awaits(k) THEN RidOf(k) ELSE 0,
             rids |-> IF Awaits(k) THEN <<RidOf(k)>> ELSE <<>>,
             done |-> ~Awaits(k)]
    IN  /\ modalShown
        /\ RidOf(Len(confirmHandlers)) <= MaxReq
        /\ sent' = RidOf(Len(confirmHandlers))
        /\ net' = net \cup
              {Request(k) : k \in {m \in DOMAIN confirmHandlers : Awaits(m)}}
        /\ onConfirms' = onConfirms \cup {Run(k) : k \in DOMAIN confirmHandlers}
        /\ confirmHandlers' =
              SelectSeq(confirmHandlers,
                        LAMBDA x : x.kind = "clear" \/ x.items # <<>>)
        /\ modalShown' = FALSE
        /\ fresh' = <<>>
        /\ UNCHANGED <<serverVars, viewVars, clientVars, modalsOpened,
                       importToast, undoWindow, faulty>>

\* the confirm handler after clearAllTodos has returned (it removes itself)
\* or has thrown (it stays attached)
ClearContinues(r, succeeded) ==
    IF RunOf(r) = {}
    THEN UNCHANGED modalVars
    ELSE LET c == CHOOSE c \in RunOf(r) : TRUE IN
         /\ onConfirms' = (onConfirms \ {c}) \cup
               {[c EXCEPT !.done = TRUE, !.rid = 0]}
         /\ confirmHandlers' = IF succeeded
                               THEN RemoveEventListener(confirmHandlers, c.h)
                               ELSE confirmHandlers
         /\ UNCHANGED <<modalShown, modalsOpened, importToast>>

\* clearAllTodos after the await
ClearAllTodosResolve(r) ==
    /\ r \in net /\ r.method = "DELETE_ALL" /\ Resolves(r)
    /\ todos' = <<>>
    /\ dom' = Rendered(todos')
    /\ net' = net \ {r}
    /\ ClearContinues(r, TRUE)
    /\ UNCHANGED <<serverVars, viewVars, sent, deletedTodo, isLoading, undoTimeout,
                   pendingClears, snackbar, booted, historyVars>>

\* clearAllTodos: catch
ClearAllTodosReject(r) ==
    /\ r \in net /\ r.method = "DELETE_ALL" /\ Throws(r)
    /\ net' = net \ {r}
    /\ ClearContinues(r, FALSE)
    /\ NetworkError(r)
    /\ UNCHANGED <<serverVars, viewVars, sent, clientVars>>

(***************************************************************************)
(* Timers.  A timer holds the time left until it fires; time passes up to  *)
(* the next instant at which a timer (or the undo window) is due.          *)
(***************************************************************************)
\* the timer of showUndoSnackbar fires: hideUndoSnackbar
UndoTimeoutFires ==
    /\ undoTimeout = <<0>>
    /\ HideUndoSnackbar
    /\ UNCHANGED <<serverVars, viewVars, modalVars, net, sent, todos, deletedTodo, isLoading, dom,
                   booted, historyVars>>

\* the timer of hideUndoSnackbar fires: the undo slot is emptied
ClearFires ==
    /\ pendingClears # <<>> /\ Head(pendingClears) = 0
    /\ deletedTodo' = <<>>
    /\ pendingClears' = Tail(pendingClears)
    /\ UNCHANGED <<serverVars, viewVars, modalVars, net, sent, todos, isLoading, undoTimeout, dom,
                   snackbar, booted, historyVars>>

TimesLeft ==
    {undoTimeout[i] : i \in DOMAIN undoTimeout}
      \cup {pendingClears[i] : i \in DOMAIN pendingClears}
      \cup {undoWindow[i].left : i \in DOMAIN undoWindow}

Elapse ==
    /\ TimesLeft # {}
    /\ \A t \in TimesLeft : t > 0
    /\ LET d == CHOOSE t \in TimesLeft : \A u \in TimesLeft : t <= u IN
          /\ undoTimeout' = [i \in DOMAIN undoTimeout |-> undoTimeout[i] - d]
          /\ pendingClears' = [i \in DOMAIN pendingClears |-> pendingClears[i] - d]
          /\ undoWindow' = IF undoWindow # <<>> /\ undoWindow[1].left > d
                           THEN <<[undoWindow[1] EXCEPT !.left = @ - d]>>
                           ELSE <<>>
    /\ UNCHANGED <<serverVars, viewVars, modalVars, net, sent, todos, deletedTodo, isLoading, dom,
                   snackbar, booted, fresh, faulty>>

Client ==
    \/ InitializeApp
    \/ HandleAddTodo
    \/ HandleToggleComplete
    \/ CycleStatus
    \/ SaveEdit
    \/ HandleDeleteTodo
    \/ HandleClearDatabase
    \/ HideModal
    \/ ConfirmHandler
    \/ HandleUndo
    \/ \E r \in net : FetchTodosResolve(r)
    \/ \E r \in net : FetchTodosReject(r)
    \/ \E r \in net : CreateTodoResolve(r)
    \/ \E r \in net : CreateTodoReject(r)
    \/ \E r \in net : UpdateTodoResolve(r)
    \/ \E r \in net : UpdateTodoReject(r)
    \/ \E r \in net : DeleteTodoResolve(r)
    \/ \E r \in net : DeleteTodoReject(r)
    \/ \E r \in net : ClearAllTodosResolve(r)
    \/ \E r \in net : ClearAllTodosReject(r)
    \/ UndoTimeoutFires
    \/ ClearFires
    \/ Elapse

Next == Client \/ Server
Spec == Init /\ [][Next]_vars

(***************************************************************************)
(* src/frontend/app.js: filtering and sorting.                             *)
(***************************************************************************)
UpperCase ==
    <<"A", "B", "C", "D", "E", "F", "G", "H", "I", "J", "K", "L", "M", "N",
      "O", "P", "Q", "R", "S", "T", "U", "V", "W", "X", "Y", "Z">>
LowerCase ==
    <<"a", "b", "c", "d", "e", "f", "g", "h", "i", "j", "k", "l", "m", "n",
      "o", "p", "q", "r", "s", "t", "u", "v", "w", "x", "y", "z">>

\* String.prototype.toLowerCase
ToLowerCase(s) ==
    [i \in DOMAIN s |->
        IF \E k \in DOMAIN UpperCase : UpperCase[k] = s[i]
        THEN LowerCase[CHOOSE k \in DOMAIN UpperCase : UpperCase[k] = s[i]]
        ELSE s[i]]

\* String.prototype.includes
Includes(s, q) ==
    \E i \in 0..(Len(s) - Len(q)) : SubSeq(s, i + 1, i + Len(q)) = q

\* the filter tabs, and the values of the sort select: the four the
\* comparator knows and one it does not
Filters == {S_all, S_todo, S_progress, S_completed}
SortKeys == {"newest", "oldest", "priority", "dueDate", "other"}

\* the test of the status filter
MatchesFilter(todo, filter) == todo.status = Str(filter)

\* mutant: the search looks at the title alone
MatchesSearchTitleOnly(todo, query) ==
    Includes(ToLowerCase(todo.title.s), query)

\* the test of the search filter
MatchesSearch(todo, query) ==
    \/ Includes(ToLowerCase(todo.title.s), query)
    \/ Includes(ToLowerCase(todo.category.s), query)

\* getFilteredTodos before it sorts: the copy of the cache, filtered
Filtered(list, filter, query) ==
    LET byStatus == IF filter # S_all
                    THEN SelectSeq(list, LAMBDA t : MatchesFilter(t, filter))
                    ELSE list
    IN  IF query # <<>>
        THEN SelectSeq(byStatus, LAMBDA t : MatchesSearch(t, query))
        ELSE byStatus

\* new Date(value).valueOf() of a field of a cached task
DateOf(v) ==
    CASE v.t = "string" -> ParseDate(v.s)
      [] v.t = "null" -> 0
      [] OTHER -> NaN

\* x - y of two numbers as the sort reads it: NaN counts as +0
Minus(x, y) == IF x = NaN \/ y = NaN THEN 0 ELSE x - y

\* priorityOrder[p], NaN for undefined
PriorityOrder(p) ==
    CASE p = Str(S_high) -> 3
      [] p = Str(S_medium) -> 2
      [] p = Str(S_low) -> 1
      [] OTHER -> NaN

\* mutant: the comparator tests a.dueDate alone
CompareDatesUnchecked(sortKey, a, b) ==
    CASE sortKey = "newest" -> Minus(DateOf(b.createdAt), DateOf(a.createdAt))
      [] sortKey = "oldest" -> Minus(DateOf(a.createdAt), DateOf(b.createdAt))
      [] sortKey = "priority" ->
            Minus(PriorityOrder(b.priority), PriorityOrder(a.priority))
      [] sortKey = "dueDate" ->
            IF Falsy(a.dueDate) THEN 1
            ELSE Minus(DateOf(a.dueDate), DateOf(b.dueDate))
      [] OTHER -> 0

\* the comparator of filtered.sort
Compare(sortKey, a, b) ==
    CASE sortKey = "newest" -> Minus(DateOf(b.createdAt), DateOf(a.createdAt))
      [] sortKey = "oldest" -> Minus(DateOf(a.createdAt), DateOf(b.createdAt))
      [] sortKey = "priority" ->
            Minus(PriorityOrder(b.priority), PriorityOrder(a.priority))
      [] sortKey = "dueDate" ->
            IF Falsy(a.dueDate) THEN 1
            ELSE IF Falsy(b.dueDate) THEN 0 - 1
            ELSE Minus(DateOf(a.dueDate), DateOf(b.dueDate))
      [] OTHER -> 0

(***************************************************************************)
(* Array.prototype.sort.  With a consistent comparator the result is the   *)
(* stable sort; the dueDate comparator is not consistent (two tasks        *)
(* without a due date are each greater than the other), and then the       *)
(* order is the engine's: the view is what one of the engines' sorts makes *)
(* of the comparator's answers.                                            *)
(***************************************************************************)
Front(list) == SubSeq(list, 1, Len(list) - 1)
Last(list) == list[Len(list)]
RECURSIVE Reverse(_)
Reverse(list) ==
    IF list = <<>> THEN <<>> ELSE Append(Reverse(Tail(list)), Head(list))

\* insertion sort: x moves left past every element greater than it
RECURSIVE Insert(_, _, _)
Insert(sortKey, sorted, x) ==
    IF sorted = <<>> \/ Compare(sortKey, Last(sorted), x) <= 0
    THEN Append(sorted, x)
    ELSE Append(Insert(sortKey, Front(sorted), x), Last(sorted))
RECURSIVE InsertionSort(_, _)
InsertionSort(sortKey, list) ==
    IF list = <<>> THEN <<>>
    ELSE Insert(sortKey, InsertionSort(sortKey, Front(list)), Last(list))

\* TimSort on a list shorter than its minimal run: the run at the head is
\* counted (and reversed when strictly descending), the rest is inserted
\* by binary search
RECURSIVE CountRun(_, _, _, _)
CountRun(sortKey, list, n, descending) ==
    IF n = Len(list) THEN n
    ELSE LET order == Compare(sortKey, list[n + 1], list[n]) IN
         IF (descending /\ order >= 0) \/ (~descending /\ order < 0) THEN n
         ELSE CountRun(sortKey, list, n + 1, descending)
RECURSIVE BinarySearch(_, _, _, _, _)
BinarySearch(sortKey, sorted, pivot, left, right) ==
    IF left >= right THEN left
    ELSE LET mid == left + ((right - left) \div 2) IN
         IF Compare(sortKey, pivot, sorted[mid + 1]) < 0
         THEN BinarySearch(sortKey, sorted, pivot, left, mid)
         ELSE BinarySearch(sortKey, sorted, pivot, mid + 1, right)
RECURSIVE BinaryInsertionSort(_, _, _)
BinaryInsertionSort(sortKey, sorted, rest) ==
    IF rest = <<>> THEN sorted
    ELSE LET at == BinarySearch(sortKey, sorted, Head(rest), 0, Len(sorted))
         IN  BinaryInsertionSort(sortKey,
                 SubSeq(sorted, 1, at) \o <<Head(rest)>>
                     \o SubSeq(sorted, at + 1, Len(sorted)),
                 Tail(rest))
TimSort(sortKey, list) ==
    IF Len(list) < 2 THEN list
    ELSE LET descending == Compare(sortKey, list[2], list[1]) < 0
             n == CountRun(sortKey, list, 2, descending)
             run == IF descending THEN Reverse(SubSeq(list, 1, n))
                    ELSE SubSeq(list, 1, n)
         IN  BinaryInsertionSort(sortKey, run, SubSeq(list, n + 1, Len(list)))

\* mutant: the merge takes the right element on a tie
RECURSIVE MergeUnstable(_, _, _)
MergeUnstable(sortKey, left, right) ==
    IF left = <<>> THEN right
    ELSE IF right = <<>> THEN left
    ELSE IF Compare(sortKey, Head(right), Head(left)) <= 0
         THEN <<Head(right)>> \o MergeUnstable(sortKey, left, Tail(right))
         ELSE <<Head(left)>> \o MergeUnstable(sortKey, Tail(left), right)

\* merge sort: the right element is taken only when it is less
RECURSIVE Merge(_, _, _)
Merge(sortKey, left, right) ==
    IF left = <<>> THEN right
    ELSE IF right = <<>> THEN left
    ELSE IF Compare(sortKey, Head(right), Head(left)) < 0
         THEN <<Head(right)>> \o Merge(sortKey, left, Tail(right))
         ELSE <<Head(left)>> \o Merge(sortKey, Tail(left), right)
RECURSIVE MergeSort(_, _)
MergeSort(sortKey, list) ==
    IF Len(list) < 2 THEN list
    ELSE LET mid == Len(list) \div 2 IN
         Merge(sortKey, MergeSort(sortKey, SubSeq(list, 1, mid)),
               MergeSort(sortKey, SubSeq(list, mid + 1, Len(list))))

\* filtered.sort(comparator): the orders the engines produce
ArraySort(sortKey, list) ==
    {TimSort(sortKey, list), InsertionSort(sortKey, list),
     MergeSort(sortKey, list)}

\* getFilteredTodos: the lists it may return
GetFilteredTodos(list, filter, query, sortKey) ==
    ArraySort(sortKey, Filtered(list, filter, query))

\* mutant: getFilteredTodos sorts state.todos itself
TodosSortedInPlace(list, shown) == IF Len(shown) = Len(list) THEN shown ELSE list

\* state.todos after getFilteredTodos: it works on the copy [...state.todos]
TodosAfterView(list, shown) == list

\* renderTodos under the given criteria
RenderTodos(filter, query, sortKey) ==
    /\ view' \in GetFilteredTodos(todos, filter, query, sortKey)
    /\ todos' = TodosAfterView(todos, view')
    /\ dom' = Rendered(view')

\* handleFilterChange
HandleFilterChange ==
    /\ \E filter \in Filters :
          /\ currentFilter' = filter
          /\ RenderTodos(filter, searchQuery, currentSort)
    /\ UNCHANGED <<serverVars, net, sent, deletedTodo, isLoading, undoTimeout,
                   pendingClears, snackbar, booted, searchInput, currentSort,
                   searchQuery, modalVars, historyVars>>

\* what the user can type into the search box
SearchInputs == {<<>>, <<"A">>, <<"o", "r">>}

\* handleSearch
HandleSearch ==
    /\ \E text \in SearchInputs :
          /\ searchInput' = text
          /\ searchQuery' = ToLowerCase(text)
          /\ RenderTodos(currentFilter, ToLowerCase(text), currentSort)
    /\ UNCHANGED <<serverVars, net, sent, deletedTodo, isLoading, undoTimeout,
                   pendingClears, snackbar, booted, currentFilter, currentSort,
                   modalVars, historyVars>>

\* handleSort
HandleSort ==
    /\ \E sortKey \in SortKeys :
          /\ currentSort' = sortKey
          /\ RenderTodos(currentFilter, searchQuery, sortKey)
    /\ UNCHANGED <<serverVars, net, sent, deletedTodo, isLoading, undoTimeout,
                   pendingClears, snackbar, booted, searchInput, currentFilter,
                   searchQuery, modalVars, historyVars>>

(***************************************************************************)
(* SpecView: the page has loaded some cache; the user changes the filter,  *)
(* the search text and the sort key.                                       *)
(***************************************************************************)
CachedTodo(id, title, status, priority, category, dueDate, createdAt) ==
    [_id |-> id, title |-> Str(title), status |-> Str(status),
     priority |-> Str(priority), category |-> Str(category),
     dueDate |-> dueDate, createdAt |-> Str(ToISOString(createdAt))]

\* the tasks a cache is made of
CachedTodos ==
    {CachedTodo(1, <<"b", "A">>, S_todo, S_high, S_general, Null, 1),
     CachedTodo(2, <<"c">>, S_completed, S_low, S_work,
                Str(ToISOString(2)), 2),
     CachedTodo(3, <<"d">>, S_todo, S_medium, S_shopping,
                Str(ToISOString(1)), 0),
     CachedTodo(4, <<"a">>, S_progress, S_high, S_work, Null, 2),
     CachedTodo(5, <<"e">>, S_completed, S_low, S_general,
                Str(ToISOString(1)), 3),
     CachedTodo(6, <<"f">>, S_todo, S_medium, S_shopping, Null, 0)}

\* the caches: every list of at most MaxCache of these tasks
Caches == UNION {[1..n -> CachedTodos] : n \in 0..MaxCache}

InitView ==
    /\ store = {} /\ nextId = 0 /\ created = <<>>
    /\ now = 0
    /\ enumAllowsNull = FALSE
    /\ net = {}
    /\ todos \in Caches
    /\ deletedTodo = <<>>
    /\ isLoading = FALSE
    /\ undoTimeout = <<>>
    /\ pendingClears = <<>>
    /\ snackbar = FALSE
    /\ booted = TRUE
    /\ sent = 0
    /\ searchInput = <<>>
    /\ currentFilter = S_all
    /\ currentSort = "newest"
    /\ searchQuery = <<>>
    /\ view \in GetFilteredTodos(todos, S_all, <<>>, "newest")
    /\ dom = Rendered(view)
    /\ modalShown = FALSE
    /\ modalsOpened = 0
    /\ confirmHandlers = <<>>
    /\ onConfirms = {}
    /\ importToast = NoToast
    /\ undoWindow = <<>>
    /\ fresh = <<>>
    /\ faulty = FALSE

NextView == HandleFilterChange \/ HandleSearch \/ HandleSort
SpecView == InitView /\ [][NextView]_vars

(***************************************************************************)
(* SpecUndo: the page has loaded the tasks of the store; the user deletes  *)
(* tasks and clicks Undo, as often and as early as the page allows.        *)
(***************************************************************************)
InitLoaded ==
    /\ \E k \in 1..MaxSeed :
          /\ store = {SeedTodo(i) : i \in 1..k}
          /\ nextId = k
          /\ created = [i \in 1..k |->
                          [_id |-> SeedTodo(i)._id,
                           createdAt |-> SeedTodo(i).createdAt,
                           rid |-> 0, undo |-> 0]]
    /\ now = 0
    /\ enumAllowsNull \in BOOLEAN
    /\ net = {}
    /\ \E q \in SortedNewestFirst(store) :
          todos = [i \in DOMAIN q |-> ToJSON(q[i])]
    /\ dom = Rendered(todos)
    /\ deletedTodo = <<>>
    /\ isLoading = FALSE
    /\ undoTimeout = <<>>
    /\ pendingClears = <<>>
    /\ snackbar = FALSE
    /\ booted = TRUE
    /\ sent = 0
    /\ searchInput = <<>>
    /\ currentFilter = S_all
    /\ currentSort = "newest"
    /\ searchQuery = <<>>
    /\ view = <<>>
    /\ modalShown = FALSE
    /\ modalsOpened = 0
    /\ confirmHandlers = <<>>
    /\ onConfirms = {}
    /\ importToast = NoToast
    /\ undoWindow = <<>>
    /\ fresh = <<>>
    /\ faulty = FALSE

NextUndo ==
    \/ HandleDeleteTodo
    \/ HandleUndo
    \/ \E r \in net : DeleteTodo(r)
    \/ \E r \in net : PostTodos(r)
    \/ \E r \in net : StoreFault(r)
    \/ TickClock
    \/ \E r \in net : DeleteTodoResolve(r)
    \/ \E r \in net : DeleteTodoReject(r)
    \/ \E r \in net : CreateTodoResolve(r)
    \/ \E r \in net : CreateTodoReject(r)
    \/ UndoTimeoutFires
    \/ ClearFires
    \/ Elapse
SpecUndo == InitLoaded /\ [][NextUndo]_vars

(***************************************************************************)
(* SpecImport: the page loads; the user picks files to import and clears   *)
(* the database, confirming or cancelling each modal.                      *)
(***************************************************************************)
NextImport ==
    \/ InitializeApp
    \/ HandleImport
    \/ HandleClearDatabase
    \/ HideModal
    \/ ConfirmHandler
    \/ \E r \in net : GetTodos(r)
    \/ \E r \in net : PostTodos(r)
    \/ \E r \in net : DeleteTodos(r)
    \/ \E r \in net : StoreFault(r)
    \/ TickClock
    \/ \E r \in net : FetchTodosResolve(r)
    \/ \E r \in net : FetchTodosReject(r)
    \/ \E r \in net : CreateTodoResolve(r)
    \/ \E r \in net : CreateTodoReject(r)
    \/ \E r \in net : ClearAllTodosResolve(r)
    \/ \E r \in net : ClearAllTodosReject(r)
SpecImport == Init /\ [][NextImport]_vars

(***************************************************************************)
(* Properties of the client (checked under Spec).                          *)
(***************************************************************************)
Quiet == booted /\ net = {}
CacheIsStore ==
    /\ Len(todos) = Cardinality(store)
    /\ Rendered(todos) = {ToJSON(d) : d \in store}

\* C1: whenever the client has no request in flight (and no request has
\* met a store fault or a network error), the cache holds exactly the
\* tasks of the store, with the same ids and field values.
C1_CacheMirrorsStore == (Quiet /\ ~faulty) => CacheIsStore

ClientRejects ==
    \E r \in net :
        \/ FetchTodosReject(r)
        \/ CreateTodoReject(r)
        \/ UpdateTodoReject(r)
        \/ DeleteTodoReject(r)
        \/ ClearAllTodosReject(r)

\* C2: a request that fails leaves the cache and the undo slot as they
\* were before the failure was delivered.
C2_FailureLeavesState ==
    [][ClientRejects => (todos' = todos /\ deletedTodo' = deletedTodo)]_vars

\* C3: from a successful delete of a cached task until its undo window has
\* elapsed, a later successful delete has replaced it or the user has
\* undone it, the undo slot holds the snapshot of the deleted task.
C3_UndoSlotHeld ==
    undoWindow # <<>> => deletedTodo = <<undoWindow[1].todo>>

SameFields(a, b) ==
    /\ a.title = b.title
    /\ a.status = b.status
    /\ a.priority = b.priority
    /\ a.category = b.category
    /\ a.dueDate = b.dueDate

\* the task t was deleted, the undo followed with no other user action in
\* between, and its create has just returned
UndoCompletes(r) == CreateTodoResolve(r) /\ r.undo # <<>> /\ fresh = r.undo

\* C4: deleting a cached task and undoing before any other action leaves
\* the store and the cache with a task of the same title, status, priority,
\* category and dueDate, under an id no task has had before.
C4_UndoRecreates ==
    [][/\ \A r \in net : UndoCompletes(r) =>
              /\ SameFields(todos'[1], r.undo[1])
              /\ todos'[1]._id # r.undo[1]._id
              /\ \E d \in store' : ToJSON(d) = todos'[1]
       /\ \A r \in net : PostTodos(r) =>
              \A d \in store' \ store : d._id \notin 1..nextId]_vars

\* an undo of a task with a due date has completed right after its delete
C4_Witness ==
    /\ fresh # <<>> /\ fresh[1].dueDate # Null
    /\ deletedTodo = <<>> /\ pendingClears # <<>> /\ net = {}
    /\ todos # <<>>
    /\ SameFields(todos[1], fresh[1])
    /\ todos[1]._id # fresh[1]._id
    /\ \E d \in store : ToJSON(d) = todos[1]

(***************************************************************************)
(* Properties of the API (checked under SpecApi).                          *)
(***************************************************************************)
EnumFields == {"status", "priority", "category"}
InEnum(f, v) == v.t = "string" /\ v.s \in EnumOf(f)

\* the response the handler sends to request r in this step
ReplyTo(r) == CHOOSE m \in net' : m.rid = r.rid

\* C5: every stored task has a title that is non-empty after trimming and
\* a status, a priority and a category of its enumerated set.
C5_StoredTasksValid ==
    \A d \in store :
        /\ d.title.t = "string" /\ Trim(d.title.s) # <<>>
        /\ \A f \in EnumFields : InEnum(f, d[f])

\* the body supplies, for an enum field, a value that is not of its set
SuppliesInvalidEnum(body) ==
    \E f \in EnumFields : body[f] \notin {Undefined, Null} /\ ~InEnum(f, body[f])

\* C6: a POST or PUT whose body supplies a status, priority or category
\* outside its set is answered 4xx and leaves the store unchanged.
C6_InvalidEnumIs400 ==
    [][\A r \in net :
          ((PostTodos(r) \/ PutTodo(r)) /\ SuppliesInvalidEnum(r.body)) =>
              (ReplyTo(r).status \in 400..499 /\ store' = store)]_vars

\* C7: a POST whose body supplies, for status, priority or category, any
\* value that is not of the set ('' , null, 0 and false included) is
\* rejected and stores nothing.
C7_NoDefaultForSuppliedValue ==
    [][\A r \in net :
          (/\ PostTodos(r)
           /\ \E f \in EnumFields :
                 r.body[f] # Undefined /\ ~InEnum(f, r.body[f])) =>
              (ReplyTo(r).status \notin 200..299 /\ store' = store)]_vars

BlankTitle(v) == Falsy(v) \/ (v.t = "string" /\ Trim(v.s) = <<>>)
NonBlankTitle(v) == v.t = "string" /\ Trim(v.s) # <<>>

\* the request r is answered 201 and its task is stored with the title
\* trimmed
CreatedTrimmed(r) ==
    /\ ReplyTo(r).status = 201
    /\ \E d \in store' \ store :
          /\ d.title = Str(Trim(r.body.title.s))
          /\ store' = store \cup {d}

BlankTitleIs400 ==
    \A r \in net :
        (PostTodos(r) /\ BlankTitle(r.body.title)) =>
            (ReplyTo(r).status = 400 /\ store' = store)

\* C8 as stated: a blank title is answered 400 and stores nothing; every
\* non-blank title is stored trimmed and answered 201.
C8_AsStated ==
    [][/\ BlankTitleIs400
       /\ \A r \in net :
             (PostTodos(r) /\ NonBlankTitle(r.body.title)) => CreatedTrimmed(r)]_vars

\* each other field of the body is omitted or holds a valid value
OtherFieldsValid(body) ==
    /\ \A f \in EnumFields : body[f] = Undefined \/ InEnum(f, body[f])
    /\ \/ body.dueDate \in {Undefined, Null}
       \/ body.dueDate.t = "string" /\ ParseDate(body.dueDate.s) # NaN

\* C8, amended: a blank title is answered 400 and stores nothing; a
\* non-blank title is stored trimmed and answered 201 when every other
\* field of the body is omitted or valid.
C8_TitleRequired ==
    [][/\ BlankTitleIs400
       /\ \A r \in net :
             (/\ PostTodos(r)
              /\ NonBlankTitle(r.body.title)
              /\ OtherFieldsValid(r.body)) => CreatedTrimmed(r)]_vars

\* a title with surrounding blanks has been stored trimmed, answered 201
C8_Witness ==
    \E r \in net :
        /\ r.method = "POST" /\ r.phase = "replied" /\ r.status = 201
        /\ r.body.title.s # Trim(r.body.title.s)
        /\ \E d \in store : d._id = r.reply[1]._id /\ d.title = Str(Trim(r.body.title.s))

\* C9: a successful PUT changes, of the task with the given id, only
\* fields among title, status, priority, category and dueDate that the body
\* supplies; _id and createdAt stay whatever the body holds, every other
\* task stays, and a body that supplies none of the five changes nothing.
C9_PartialUpdate ==
    [][\A r \in net :
          (PutTodo(r) /\ ReplyTo(r).status = 200) =>
              \E d \in store, e \in store' :
                  /\ d._id = r.id /\ e._id = r.id
                  /\ store' \ {e} = store \ {d}
                  /\ e.createdAt = d.createdAt
                  /\ \A f \in Fields : r.body[f] = Undefined => e[f] = d[f]
                  /\ ToJSON(e) = ReplyTo(r).reply[1]]_vars

\* a PUT whose body names _id, createdAt and one more field has succeeded
C9_Witness ==
    \E r \in net :
        /\ r.method = "PUT" /\ r.phase = "replied" /\ r.status = 200
        /\ r.body.createdAt # Undefined
        /\ r.body.status # Undefined
        /\ \E d \in store :
              d._id = r.id /\ d.status = r.body.status /\ d.createdAt.n # 9
                /\ d.priority # Null

NoSuchTodo(id) == ObjectIdIsValid(id) /\ ~\E d \in store : d._id = id

MalformedIs400 ==
    \A r \in net :
        ((PutTodo(r) \/ DeleteTodo(r)) /\ ~ObjectIdIsValid(r.id)) =>
            (ReplyTo(r).status = 400 /\ store' = store)

DeleteRemovesOne ==
    \A r \in net :
        (DeleteTodo(r) /\ \E d \in store : d._id = r.id) =>
            \E d \in store : d._id = r.id /\ store' = store \ {d}

UpdateValid(body) ==
    /\ body.title = Undefined \/ NonBlankTitle(body.title)
    /\ OtherFieldsValid(body)

Count(list, t) == Cardinality({i \in DOMAIN list : list[i] = t})

\* the cached tasks the criteria keep: the status filter is all or the
\* task's status, the search text is empty or, lower-cased, part of the
\* lower-cased title or category
Kept(t) ==
    /\ currentFilter = S_all \/ t.status = Str(currentFilter)
    /\ \/ searchInput = <<>>
       \/ Includes(ToLowerCase(t.title.s), ToLowerCase(searchInput))
       \/ Includes(ToLowerCase(t.category.s), ToLowerCase(searchInput))

HasDueDate(t) == t.dueDate # Null

\* C11: with sort key dueDate every task of the view without a due date
\* comes after every task with one, and the tasks with a due date are in
\* ascending date order.
C11_DueDateOrder ==
    currentSort = "dueDate" =>
        \A i, j \in DOMAIN view :
            (i < j /\ HasDueDate(view[j])) =>
                /\ HasDueDate(view[i])
                /\ DateOf(view[i].dueDate) <= DateOf(view[j].dueDate)

\* a cache that starts with two tasks without a due date and ends with a
\* dated one, shown by due date
C11_Witness ==
    /\ currentSort = "dueDate"
    /\ Len(todos) = 3 /\ Len(view) = 3
    /\ ~HasDueDate(todos[1]) /\ ~HasDueDate(todos[2]) /\ HasDueDate(todos[3])
    /\ todos[1] # todos[2]
    /\ view[1] = todos[3]

\* the lists with the same entries as list, in every order
PermutationsOf(list) ==
    {[i \in DOMAIN list |-> list[f[i]]] : f \in Permutations(DOMAIN list)}

DistinctCreatedAt(list) ==
    \A i, j \in DOMAIN list : i # j => list[i].createdAt # list[j].createdAt

NewestOfAll ==
    currentFilter = S_all /\ searchInput = <<>> /\ currentSort = "newest"

\* C12: with filter all, empty search and sort key newest the view holds
\* every cached task exactly once, by createdAt descending; for pairwise
\* distinct createdAt every permutation of the cache gives the same view;
\* and computing a view leaves the cache as it was.
C12_NewestView ==
    /\ [](NewestOfAll =>
            /\ \A t \in Rendered(todos) \cup Rendered(view) :
                  Count(view, t) = Count(todos, t)
            /\ \A i, j \in DOMAIN view :
                  i < j => DateOf(view[i].createdAt) >= DateOf(view[j].createdAt)
            /\ DistinctCreatedAt(todos) =>
                  \A p \in PermutationsOf(todos) :
                      GetFilteredTodos(p, S_all, <<>>, "newest") = {view})
    /\ [][(HandleFilterChange \/ HandleSearch \/ HandleSort) => todos' = todos]_vars

\* a cache of three tasks, oldest first, is shown newest first
C12_Witness ==
    /\ NewestOfAll
    /\ Len(todos) = 3 /\ DistinctCreatedAt(todos)
    /\ view = Reverse(todos)
    /\ dom = Rendered(view)

\* C13: the view holds exactly the cached tasks the status filter and the
\* search keep, each as often as the cache holds it, whatever the sort key.
C13_ViewIsFilter ==
    \A t \in Rendered(todos) \cup Rendered(view) :
        Count(view, t) = IF Kept(t) THEN Count(todos, t) ELSE 0

\* a search typed in upper case keeps one completed task by its category
\* alone; another completed task and a task of another status are dropped
C13_Witness ==
    /\ searchInput = <<"A">>
    /\ currentFilter = S_completed
    /\ Len(view) = 1 /\ Len(todos) = 3
    /\ ~Includes(ToLowerCase(view[1].title.s), <<"a">>)
    /\ \E i \in DOMAIN todos :
          todos[i].status = Str(S_completed) /\ todos[i] # view[1]
    /\ \E i \in DOMAIN todos : todos[i].status # Str(S_completed)

PrioritiesOf(list, p) == SelectSeq(list, LAMBDA t : t.priority = Str(p))

\* C14: with sort key priority high tasks precede medium tasks and medium
\* tasks precede low ones, and tasks of equal priority keep the relative
\* order they have in the cache.
C14_PriorityOrder ==
    currentSort = "priority" =>
        /\ \A i, j \in DOMAIN view :
              i < j => PriorityOrder(view[i].priority)
                          >= PriorityOrder(view[j].priority)
        /\ \A p \in PriorityEnum :
              PrioritiesOf(view, p) = PrioritiesOf(SelectSeq(todos, Kept), p)

\* two low tasks with a high one behind them in the cache
C14_Witness ==
    /\ currentSort = "priority"
    /\ Len(todos) = 3 /\ Len(view) = 3
    /\ todos[1].priority = Str(S_low) /\ todos[2].priority = Str(S_low)
    /\ todos[1] # todos[2]
    /\ todos[3].priority = Str(S_high)
    /\ view = <<todos[3], todos[1], todos[2]>>

(***************************************************************************)
(* Properties of creation (checked under SpecApi).                         *)
(***************************************************************************)
\* C15: every created task has an id no task created before it has had,
\* deleted ones included; createdAt never decreases from one create to the
\* next; an _id or createdAt in the request body is not taken.
C15_CreatesAreFresh ==
    /\ \A i, j \in DOMAIN created :
          i < j => /\ created[i]._id # created[j]._id
                   /\ created[i].createdAt.n <= created[j].createdAt.n
    /\ \A r \in net :
          (r.method = "POST" /\ r.phase = "replied" /\ r.status = 201) =>
              /\ r.body._id # Undefined => r.reply[1]._id # r.body._id.n
              /\ r.body.createdAt # Undefined =>
                    r.reply[1].createdAt # r.body.createdAt
              /\ r.reply[1]._id = Last(created)._id
              /\ r.reply[1].createdAt = Str(ToISOString(Last(created).createdAt.n))

\* a task was created and deleted; a later create, whose body carries an
\* _id, has been answered
C15_Witness ==
    /\ Len(created) = 2
    /\ \A d \in store : d._id # created[1]._id
    /\ created[1].createdAt.n < created[2].createdAt.n
    /\ \E r \in net :
          /\ r.method = "POST" /\ r.phase = "replied" /\ r.status = 201
          /\ r.body._id # Undefined
          /\ \E d \in store : d._id = r.reply[1]._id

(***************************************************************************)
(* Properties of the undo timers (checked under Spec).                     *)
(***************************************************************************)
\* C17: at every moment at most one delayed action that can empty the undo
\* slot or hide the undo prompt is pending: when showUndoSnackbar starts
\* the timer of a new delete, nothing scheduled for an earlier delete or
\* undo is left to fire.
C17_SingleDelayedAction == Len(undoTimeout) + Len(pendingClears) <= 1

(***************************************************************************)
(* Properties of undo (checked under SpecUndo).                            *)
(***************************************************************************)
\* C18: for one deleted task at most one task is re-created in the store,
\* however often and however early the user clicks Undo.
C18_UndoneOnce ==
    \A i, j \in DOMAIN created :
        (i < j /\ created[i].undo # 0) => created[i].undo # created[j].undo

(***************************************************************************)
(* Properties of the import (checked under SpecImport).                    *)
(***************************************************************************)
ImportRuns == {c \in onConfirms : c.kind = "import"}
HasTitle(element) == element.title.t = "string" /\ element.title.s # <<>>
RequestsOf(c) == {c.rids[k] : k \in DOMAIN c.rids}
CreatedBy(c) == {i \in DOMAIN created : created[i].rid \in RequestsOf(c)}

\* no create is sent for a file with an element that lacks a title
ImportValidated ==
    \A c \in ImportRuns : \A k \in DOMAIN c.items : HasTitle(c.items[k])

\* an import runs when the user has confirmed its modal, and then once
ImportConfirmedOnce ==
    \A c \in ImportRuns :
        c.shown /\ \A d \in ImportRuns : d.h = c.h => d = c

\* the creates of an import go out in array order, one after another
ImportSequential ==
    \A c \in ImportRuns :
        /\ Len(c.rids) = c.i
        /\ \A k, m \in DOMAIN c.rids : k < m => c.rids[k] < c.rids[m]
        /\ Cardinality({r \in net : r.rid \in RequestsOf(c)}) <= 1
        /\ \A r \in net : \A k \in DOMAIN c.rids :
              r.rid = c.rids[k] =>
                 r.method = "POST" /\ r.body.title = c.items[k].title

\* a finished import has sent one create per element, and its counts add
\* up to the number of elements, the succeeded count being the number of
\* tasks its creates have added to the store
ImportCounted ==
    \A c \in ImportRuns :
        c.done =>
            /\ Len(c.rids) = Len(c.items)
            /\ c.ok + c.failed = Len(c.items)
            /\ c.ok = Cardinality(CreatedBy(c))

\* C16: an array with an element that lacks a non-empty string title sends
\* no create; otherwise the confirmed import sends exactly one create per
\* element, in array order and one after another, a failed create not
\* stopping the later ones, and ends with succeeded + failed = N where
\* succeeded is the number of tasks added to the store.
C16_ImportAsStated ==
    ImportValidated /\ ImportConfirmedOnce /\ ImportSequential /\ ImportCounted

============================================================================
